---- MODULE Spec2Model ----
(***************************************************************************)
(* A model of src/rogue.c: dungeon generation (generate_floor and the      *)
(* carve routines),                                                        *)
(* the start-up fixups of init_systems, movement and floor transitions     *)
(* (handle_input) and the field-of-view pass (update_fov, cast_light).     *)
(*                                                                         *)
(* The grid and the generator's parameters are scaled down from the        *)
(* program's (80x50 grid, 15 attempts, rooms 6..12, 5 floors); the scaled  *)
(* values are the bounds of the model.  Slopes, which the program keeps as *)
(* floats, are exact fractions <<num, den>>: every slope the program forms *)
(* is 1, 0 or (2*dy +- 1)/(2*dx -+ 1), so dx*slope is never within 1/600   *)
(* of a half-integer and roundf gives the same integer as exact rounding.  *)
(***************************************************************************)
EXTENDS Integers, Sequences, FiniteSets, TLC

\* --- Game constants (scaled) ------------------------------------------------
DUNGEON_FLOOR_COUNT == 3
GRID_COLS == 9
GRID_ROWS == 8
MAX_ROOMS == 3
MIN_ROOM_W == 3
MAX_ROOM_W == 4
MIN_ROOM_H == 3
MAX_ROOM_H == 4

\* rand() returns a value of 0 .. RAND_MAX (scaled: it covers every residue the
\* generator takes).
RAND_MAX == 4

VARIABLES
    floors,               \* dungeon.floors: index -> [tiles, stairs_up, stairs_down]
    floor_count,          \* dungeon.floor_count
    current_floor_index,  \* game_state.current_floor_index
    player,               \* game_state.player: [x, y]
    is_running,           \* game_state.is_running
    gen,                  \* generate_floor's locals: [i, rooms] (rooms[1..room_count])
    scan_log,             \* what the last update_fov did at each scanned Wall cell
    pc                    \* where the program is

vars == <<floors, floor_count, current_floor_index, player, is_running, gen, scan_log, pc>>

\* --- Tile model ------------------------------------------------------------
TileType == {"WALL", "GROUND", "STAIRS_UP", "STAIRS_DOWN"}

Xs == 0 .. GRID_COLS - 1
Ys == 0 .. GRID_ROWS - 1

Tile(t, v, e) == [type |-> t, is_visible |-> v, is_explored |-> e]

Point(px, py) == [x |-> px, y |-> py]

\* The bounds test of handle_input and cast_light.
InGrid(x, y) == ~(x < 0 \/ x >= GRID_COLS \/ y < 0 \/ y >= GRID_ROWS)

\* --- Field of view -----------------------------------------------------------
Slope(n, d) == <<n, d>>

\* start_slope < end_slope, on fractions with positive denominators.
SlopeLess(a, b) == a[1] * b[2] < b[1] * a[2]

\* roundf(dx * s): round to nearest, halves away from zero.
RoundMul(dx, s) ==
    LET a == dx * s[1]
        b == s[2]
    IN  IF a >= 0 THEN (2 * a + b) \div (2 * b)
                  ELSE 0 - ((2 * (0 - a) + b) \div (2 * b))

\* Mutant of OctantCell: octant 7 repeats octant 0's transform.
OctantCell_Octant7AsOctant0(octant, px, py, dx, dy) ==
    CASE octant = 0 -> <<px + dy, py - dx>>
      [] octant = 1 -> <<px + dx, py - dy>>
      [] octant = 2 -> <<px + dx, py + dy>>
      [] octant = 3 -> <<px + dy, py + dx>>
      [] octant = 4 -> <<px - dy, py + dx>>
      [] octant = 5 -> <<px - dx, py + dy>>
      [] octant = 6 -> <<px - dx, py - dy>>
      [] octant = 7 -> <<px + dy, py - dx>>

\* The octant switch of cast_light: the cell at (dx, dy) of the octant.
OctantCell(octant, px, py, dx, dy) ==
    CASE octant = 0 -> <<px + dy, py - dx>>
      [] octant = 1 -> <<px + dx, py - dy>>
      [] octant = 2 -> <<px + dx, py + dy>>
      [] octant = 3 -> <<px + dy, py + dx>>
      [] octant = 4 -> <<px - dy, py + dx>>
      [] octant = 5 -> <<px - dx, py + dy>>
      [] octant = 6 -> <<px - dx, py - dy>>
      [] octant = 7 -> <<px - dy, py - dx>>

\* Whether a scanned Wall cell spawns the recursive sub-scan: the code tests
\* the blocked flag, which is set when the previous cell of the row was a Wall.
SpawnsSubScan(blocked) == blocked

RECURSIVE CastLight(_, _, _, _, _, _, _)
RECURSIVE ScanCells(_, _, _, _, _, _, _, _, _)
RECURSIVE ScanRows(_, _, _, _, _, _, _, _)

\* The inner loop of cast_light over one depth row dx, from dy down to lo.
\* st = [start, blocked, vis, log]: the running start_slope, the blocked flag,
\* the cells marked visible and explored, and the log of Wall cells.
ScanCells(tiles, px, py, octant, end_slope, dx, dy, lo, st) ==
    IF dy < lo THEN st
    ELSE
      LET c == OctantCell(octant, px, py, dx, dy)
      IN  IF ~InGrid(c[1], c[2])
          THEN ScanCells(tiles, px, py, octant, end_slope, dx, dy - 1, lo, st)
          ELSE
            IF tiles[c[2]][c[1]].type = "WALL"
            THEN
              LET spawn == SpawnsSubScan(st.blocked)
                  sub == IF spawn
                         THEN CastLight(tiles, px, py, octant, dx + 1, st.start,
                                        Slope(2 * dy + 1, 2 * dx - 1))
                         ELSE [vis |-> {}, log |-> {}]
              IN  ScanCells(tiles, px, py, octant, end_slope, dx, dy - 1, lo,
                    [start   |-> Slope(2 * dy - 1, 2 * dx + 1),
                     blocked |-> TRUE,
                     vis     |-> st.vis \cup {c} \cup sub.vis,
                     log     |-> st.log \cup sub.log
                                 \cup {[prev_wall |-> st.blocked, spawned |-> spawn]}])
            ELSE
              ScanCells(tiles, px, py, octant, end_slope, dx, dy - 1, lo,
                    [st EXCEPT !.blocked = FALSE, !.vis = @ \cup {c}])

\* The outer loop of cast_light from depth row i on.
ScanRows(tiles, px, py, octant, i, start_slope, end_slope, acc) ==
    IF ~(i < GRID_ROWS + GRID_COLS) THEN acc
    ELSE
      LET r == ScanCells(tiles, px, py, octant, end_slope, i,
                         RoundMul(i, start_slope), RoundMul(i, end_slope),
                         [start |-> start_slope, blocked |-> FALSE,
                          vis |-> {}, log |-> {}])
          acc2 == [vis |-> acc.vis \cup r.vis, log |-> acc.log \cup r.log]
      IN  IF r.blocked THEN acc2
          ELSE ScanRows(tiles, px, py, octant, i + 1, r.start, end_slope, acc2)

CastLight(tiles, px, py, octant, row, start_slope, end_slope) ==
    IF SlopeLess(start_slope, end_slope) THEN [vis |-> {}, log |-> {}]
    ELSE ScanRows(tiles, px, py, octant, row, start_slope, end_slope,
                  [vis |-> {}, log |-> {}])

\* The eight calls of update_fov, as one result.
CastAll(tiles, px, py) ==
    LET r == [o \in 0 .. 7 |-> CastLight(tiles, px, py, o, 1, Slope(1, 1), Slope(0, 1))]
    IN  [vis |-> UNION {r[o].vis : o \in 0 .. 7},
         log |-> UNION {r[o].log : o \in 0 .. 7}]

\* Mutant of FovTiles: the pass clears explored along with visible.
FovTiles_ClearsExplored(tiles, p, cast) ==
    LET lit == cast.vis \cup {<<p.x, p.y>>}
    IN  [y \in Ys |-> [x \in Xs |->
           Tile(tiles[y][x].type, <<x, y>> \in lit, <<x, y>> \in lit)]]

\* Mutant of FovTiles: only the player's own tile is marked explored.
FovTiles_ExploresOwnTileOnly(tiles, p, cast) ==
    LET lit == cast.vis \cup {<<p.x, p.y>>}
    IN  [y \in Ys |-> [x \in Xs |->
           Tile(tiles[y][x].type,
                <<x, y>> \in lit,
                tiles[y][x].is_explored \/ <<x, y>> = <<p.x, p.y>>)]]

\* update_fov on one floor's tiles with the player at p, given the cast result.
FovTiles(tiles, p, cast) ==
    LET lit == cast.vis \cup {<<p.x, p.y>>}
    IN  [y \in Ys |-> [x \in Xs |->
           Tile(tiles[y][x].type,
                <<x, y>> \in lit,
                tiles[y][x].is_explored \/ <<x, y>> \in lit)]]

\* update_fov: the floors after the pass over the current floor.
UpdateFov(fl, idx, p, cast) ==
    [fl EXCEPT ![idx].tiles = FovTiles(fl[idx].tiles, p, cast)]

\* --- Dungeon generation ------------------------------------------------------
Rect(rx, ry, rw, rh) == [x |-> rx, y |-> ry, w |-> rw, h |-> rh]

Min(a, b) == IF a < b THEN a ELSE b
Max(a, b) == IF a > b THEN a ELSE b

\* SDL_HasIntersection (SDL2, SDL_rect.c): empty rectangles never intersect;
\* on each axis the overlap [max of the mins, min of the maxes) must be non-empty.
SDL_HasIntersection(A, B) ==
    IF A.w <= 0 \/ A.h <= 0 \/ B.w <= 0 \/ B.h <= 0 THEN FALSE
    ELSE /\ ~(Min(A.x + A.w, B.x + B.w) <= Max(A.x, B.x))
         /\ ~(Min(A.y + A.h, B.y + B.h) <= Max(A.y, B.y))

\* The centre generate_floor takes of a room.
Center(r) == Point(r.x + (r.w \div 2), r.y + (r.h \div 2))

SetType(tiles, cells, t) ==
    [y \in Ys |-> [x \in Xs |->
        IF <<x, y>> \in cells THEN [tiles[y][x] EXCEPT !.type = t] ELSE tiles[y][x]]]

carve_room(tiles, room) ==
    SetType(tiles, {<<x, y>> \in Xs \X Ys :
                      /\ room.y <= y /\ y < room.y + room.h
                      /\ room.x <= x /\ x < room.x + room.w}, "GROUND")

carve_h_corridor(tiles, x1, x2, y) ==
    SetType(tiles, {<<x, y>> : x \in Min(x1, x2) .. Max(x1, x2)}, "GROUND")

carve_v_corridor(tiles, y1, y2, x) ==
    SetType(tiles, {<<x, y>> : y \in Min(y1, y2) .. Max(y1, y2)}, "GROUND")

\* Mutant of CarveCorridor: both segments start at the previous room's centre.
CarveCorridor_BothFromPrev(tiles, prev_center, new_center, coin) ==
    carve_v_corridor(
        carve_h_corridor(tiles, prev_center.x, new_center.x, prev_center.y),
        prev_center.y, new_center.y, prev_center.x)

\* The L-shaped corridor from the previous accepted room's centre to the new
\* room's: horizontal first when the coin (rand() % 2) is 0, vertical first otherwise.
CarveCorridor(tiles, prev_center, new_center, coin) ==
    IF coin = 0
    THEN carve_v_corridor(
             carve_h_corridor(tiles, prev_center.x, new_center.x, prev_center.y),
             prev_center.y, new_center.y, new_center.x)
    ELSE carve_h_corridor(
             carve_v_corridor(tiles, prev_center.y, new_center.y, prev_center.x),
             prev_center.x, new_center.x, new_center.y)

\* The tiles generate_floor starts from.
BlankTiles == [y \in Ys |-> [x \in Xs |-> Tile("WALL", FALSE, FALSE)]]

\* A SDL_Point not yet assigned.
NoPoint == Point(0 - 1, 0 - 1)

\* The draws of one attempt, from rand() values r1..r5 in R, as the code takes them.
DrawOf(r1, r2, r3, r4, r5) ==
    LET w == MIN_ROOM_W + (r1 % (MAX_ROOM_W - MIN_ROOM_W + 1))
        h == MIN_ROOM_H + (r2 % (MAX_ROOM_H - MIN_ROOM_H + 1))
    IN  [w |-> w, h |-> h,
         x |-> (r3 % (GRID_COLS - w - 1)) + 1,
         y |-> (r4 % (GRID_ROWS - h - 1)) + 1,
         coin |-> r5 % 2]

Draws(R) == {DrawOf(r1, r2, r3, r4, r5) : r1 \in R, r2 \in R, r3 \in R, r4 \in R, r5 \in R}

\* Every draw of one attempt.
AllDraws == Draws(0 .. RAND_MAX)

\* The draws the start-up dungeons of the game are built from: the smallest
\* room, in the top row, at the leftmost or the rightmost column.
CornerDraws ==
    {d \in AllDraws : /\ d.w = MIN_ROOM_W /\ d.h = MIN_ROOM_H
                      /\ d.x \in {1, GRID_COLS - d.w - 1} /\ d.y = 1 /\ d.coin = 0}

\* Mutant of Failed: the candidate is tested against the last accepted room only.
Failed_LastRoomOnly(new_room, rooms) ==
    Len(rooms) > 0 /\ SDL_HasIntersection(new_room, rooms[Len(rooms)])

\* Whether the candidate is rejected: it intersects an accepted room.
Failed(new_room, rooms) ==
    \E j \in 1 .. Len(rooms) : SDL_HasIntersection(new_room, rooms[j])

\* One iteration of generate_floor's placement loop on g = [tiles, rooms].
PlaceRoom(g, d) ==
    LET new_room == Rect(d.x, d.y, d.w, d.h)
    IN  IF Failed(new_room, g.rooms) THEN g
        ELSE
          LET carved == carve_room(g.tiles, new_room)
          IN  [tiles |-> IF Len(g.rooms) > 0
                         THEN CarveCorridor(carved, Center(g.rooms[Len(g.rooms)]),
                                            Center(new_room), d.coin)
                         ELSE carved,
               rooms |-> Append(g.rooms, new_room)]

\* The end of generate_floor: the stairs at the first and the last room's centre.
PlaceStairs(g) ==
    LET up   == Center(g.rooms[1])
        down == Center(g.rooms[Len(g.rooms)])
    IN  [tiles       |-> SetType(SetType(g.tiles, {<<up.x, up.y>>}, "STAIRS_UP"),
                                 {<<down.x, down.y>>}, "STAIRS_DOWN"),
         stairs_up   |-> up,
         stairs_down |-> down]

RECURSIVE PlaceAll(_, _, _)
PlaceAll(g, ds, i) ==
    IF i > Len(ds) THEN g ELSE PlaceAll(PlaceRoom(g, ds[i]), ds, i + 1)

\* generate_floor on the draws ds (one per attempt).
generate_floor(ds) ==
    PlaceStairs(PlaceAll([tiles |-> BlankTiles, rooms |-> <<>>], ds, 1))

\* --- generate_floor, one attempt at a time -------------------------------------
\* The state after the first loop of generate_floor: every tile a Wall, not
\* visible, not explored; no room placed.
InitGen ==
    /\ floors = [f \in {0} |-> [tiles |-> BlankTiles,
                                stairs_up |-> NoPoint, stairs_down |-> NoPoint]]
    /\ floor_count = 1
    /\ current_floor_index = 0
    /\ player = NoPoint
    /\ is_running = TRUE
    /\ gen = [i |-> 0, rooms |-> <<>>]
    /\ scan_log = {}
    /\ pc = "placing"

\* One iteration of the placement loop, on some draw.
TryRoom ==
    /\ pc = "placing"
    /\ gen.i < MAX_ROOMS
    /\ \E d \in AllDraws :
         LET g == PlaceRoom([tiles |-> floors[0].tiles, rooms |-> gen.rooms], d)
         IN  /\ floors' = [floors EXCEPT ![0].tiles = g.tiles]
             /\ gen' = [i |-> gen.i + 1, rooms |-> g.rooms]
    /\ UNCHANGED <<floor_count, current_floor_index, player, is_running, scan_log, pc>>

\* After the loop: the stairs.
Stairs ==
    /\ pc = "placing"
    /\ ~(gen.i < MAX_ROOMS)
    /\ floors' = [floors EXCEPT ![0] =
                    PlaceStairs([tiles |-> floors[0].tiles, rooms |-> gen.rooms])]
    /\ pc' = "generated"
    /\ UNCHANGED <<floor_count, current_floor_index, player, is_running, gen, scan_log>>

NextGen == TryRoom \/ Stairs

SpecGen == InitGen /\ [][NextGen]_vars

\* generate_floor's locals when it is not running.
NoGen == [i |-> 0, rooms |-> <<>>]

\* --- Start-up: init_systems ---------------------------------------------------
Floors == 0 .. DUNGEON_FLOOR_COUNT - 1

\* The two fixups of init_systems, in the code's order: floor 0's stairs_up
\* tile, then the last floor's stairs_down tile, become Ground.
FixStairs(fl) ==
    LET up  == fl[0].stairs_up
        fl1 == [fl EXCEPT ![0].tiles = SetType(@, {<<up.x, up.y>>}, "GROUND")]
        last_floor == DUNGEON_FLOOR_COUNT - 1
        down == fl1[last_floor].stairs_down
    IN  [fl1 EXCEPT ![last_floor].tiles = SetType(@, {<<down.x, down.y>>}, "GROUND")]

\* The floors generate_floor builds from corner draws.
StartFloors == {generate_floor(ds) : ds \in [1 .. MAX_ROOMS -> CornerDraws]}

\* The state init_systems leaves: the floors generated and fixed up, the player
\* on floor 0's stairs_up, the first update_fov done.
Init ==
    /\ \E gf \in [Floors -> StartFloors] :
         \E fl \in {FixStairs(gf)} :
         \E cast \in {CastAll(fl[0].tiles, fl[0].stairs_up.x, fl[0].stairs_up.y)} :
             /\ floors = UpdateFov(fl, 0, fl[0].stairs_up, cast)
             /\ scan_log = cast.log
             /\ player = fl[0].stairs_up
    /\ floor_count = DUNGEON_FLOOR_COUNT
    /\ current_floor_index = 0
    /\ is_running = TRUE
    /\ gen = NoGen
    /\ pc = "play"

\* --- handle_input --------------------------------------------------------------
MoveKeys == {"UP", "DOWN", "LEFT", "RIGHT"}

\* The coordinate a movement key asks for.
NextPos(p, key) ==
    CASE key = "UP"    -> Point(p.x, p.y - 1)
      [] key = "DOWN"  -> Point(p.x, p.y + 1)
      [] key = "LEFT"  -> Point(p.x - 1, p.y)
      [] key = "RIGHT" -> Point(p.x + 1, p.y)

\* Mutant of StepOnto: a floor transition keeps the coordinate moved to.
StepOnto_KeepsCoordinate(t, fl, n, idx, p, np) ==
    CASE t = "WALL" -> [moved |-> FALSE, idx |-> idx, player |-> p]
      [] t = "STAIRS_DOWN" ->
            IF idx < n - 1
            THEN [moved |-> TRUE, idx |-> idx + 1, player |-> np]
            ELSE [moved |-> FALSE, idx |-> idx, player |-> p]
      [] t = "STAIRS_UP" ->
            IF idx > 0
            THEN [moved |-> TRUE, idx |-> idx - 1, player |-> np]
            ELSE [moved |-> FALSE, idx |-> idx, player |-> p]
      [] OTHER -> [moved |-> TRUE, idx |-> idx, player |-> np]

\* Mutant of StepOnto: going up arrives on the upper floor's stairs_up.
StepOnto_UpArrivesOnStairsUp(t, fl, n, idx, p, np) ==
    CASE t = "WALL" -> [moved |-> FALSE, idx |-> idx, player |-> p]
      [] t = "STAIRS_DOWN" ->
            IF idx < n - 1
            THEN [moved |-> TRUE, idx |-> idx + 1, player |-> fl[idx + 1].stairs_up]
            ELSE [moved |-> FALSE, idx |-> idx, player |-> p]
      [] t = "STAIRS_UP" ->
            IF idx > 0
            THEN [moved |-> TRUE, idx |-> idx - 1, player |-> fl[idx - 1].stairs_up]
            ELSE [moved |-> FALSE, idx |-> idx, player |-> p]
      [] OTHER -> [moved |-> TRUE, idx |-> idx, player |-> np]

\* Mutant of StepOnto: a Wall is walked into like any other tile.
StepOnto_ThroughWalls(t, fl, n, idx, p, np) ==
    CASE t = "STAIRS_DOWN" ->
            IF idx < n - 1
            THEN [moved |-> TRUE, idx |-> idx + 1, player |-> fl[idx + 1].stairs_up]
            ELSE [moved |-> FALSE, idx |-> idx, player |-> p]
      [] t = "STAIRS_UP" ->
            IF idx > 0
            THEN [moved |-> TRUE, idx |-> idx - 1, player |-> fl[idx - 1].stairs_down]
            ELSE [moved |-> FALSE, idx |-> idx, player |-> p]
      [] OTHER -> [moved |-> TRUE, idx |-> idx, player |-> np]

\* What the tile switch of handle_input does with a move onto a tile of type t:
\* [moved, idx, player], before update_fov.
StepOnto(t, fl, n, idx, p, np) ==
    CASE t = "WALL" -> [moved |-> FALSE, idx |-> idx, player |-> p]
      [] t = "STAIRS_DOWN" ->
            IF idx < n - 1
            THEN [moved |-> TRUE, idx |-> idx + 1, player |-> fl[idx + 1].stairs_up]
            ELSE [moved |-> FALSE, idx |-> idx, player |-> p]
      [] t = "STAIRS_UP" ->
            IF idx > 0
            THEN [moved |-> TRUE, idx |-> idx - 1, player |-> fl[idx - 1].stairs_down]
            ELSE [moved |-> FALSE, idx |-> idx, player |-> p]
      [] OTHER -> [moved |-> TRUE, idx |-> idx, player |-> np]

\* The game state after a move to floor idx at p: update_fov has run (cast is
\* the result of its eight cast_light calls).
Moved(fl, idx, p, cast) ==
    [floors |-> UpdateFov(fl, idx, p, cast), idx |-> idx, player |-> p, log |-> cast.log]

\* handle_input on one movement key: the game state after the event, as
\* [floors, idx, player, log].
handle_input(fl, n, idx, p, log, key) ==
    LET np == NextPos(p, key)
    IN  IF ~InGrid(np.x, np.y)
        THEN [floors |-> fl, idx |-> idx, player |-> p, log |-> log]
        ELSE
          LET r == StepOnto(fl[idx].tiles[np.y][np.x].type, fl, n, idx, p, np)
          IN  IF r.moved
              THEN Moved(fl, r.idx, r.player,
                         CastAll(fl[r.idx].tiles, r.player.x, r.player.y))
              ELSE [floors |-> fl, idx |-> idx, player |-> p, log |-> log]

\* A SDL_KEYDOWN event with a movement key.
KeyDown(key) ==
    /\ pc = "play"
    /\ is_running
    /\ \E r \in {handle_input(floors, floor_count, current_floor_index, player, scan_log, key)} :
           /\ floors' = r.floors
           /\ current_floor_index' = r.idx
           /\ player' = r.player
           /\ scan_log' = r.log
    /\ UNCHANGED <<floor_count, is_running, gen, pc>>

\* SDL_QUIT or the escape key: the main loop ends.
Quit ==
    /\ pc = "play"
    /\ is_running
    /\ is_running' = FALSE
    /\ UNCHANGED <<floors, floor_count, current_floor_index, player, gen, scan_log, pc>>

Next ==
    \/ \E key \in MoveKeys : KeyDown(key)
    \/ Quit

Spec == Init /\ [][Next]_vars

\* --- The occlusion scenario: one room, one doorway ---------------------------
\* The rooms of the scenario: every rectangle with sides up to MaxSide that
\* keeps a border of one cell to the grid's edge.
MaxSide == 4

OccRooms ==
    {Rect(x, y, w, h) : <<x, y, w, h>> \in
        {q \in (1 .. GRID_COLS - 2) \X (1 .. GRID_ROWS - 2) \X (1 .. MaxSide) \X (1 .. MaxSide) :
            q[1] + q[3] <= GRID_COLS - 1 /\ q[2] + q[4] <= GRID_ROWS - 1}}

InRoom(r, x, y) == r.x <= x /\ x < r.x + r.w /\ r.y <= y /\ y < r.y + r.h

RoomCells(r) == {c \in Xs \X Ys : InRoom(r, c[1], c[2])}

\* The cells bordering the room, corners included.
Ring(r) ==
    {c \in Xs \X Ys :
        /\ ~InRoom(r, c[1], c[2])
        /\ r.x - 1 <= c[1] /\ c[1] <= r.x + r.w
        /\ r.y - 1 <= c[2] /\ c[2] <= r.y + r.h}

\* The places of a doorway: the bordering cells that share an edge with the room.
Doorways(r) ==
    {c \in Ring(r) : (r.x <= c[1] /\ c[1] < r.x + r.w) \/ (r.y <= c[2] /\ c[2] < r.y + r.h)}

OccFloor(r, door) ==
    [tiles       |-> SetType(carve_room(BlankTiles, r), {door}, "GROUND"),
     stairs_up   |-> NoPoint,
     stairs_down |-> NoPoint]

InitOcc ==
    \E r \in OccRooms : \E door \in Doorways(r) : \E c \in RoomCells(r) :
        /\ floors = [f \in {0} |-> OccFloor(r, door)]
        /\ floor_count = 1
        /\ current_floor_index = 0
        /\ player = Point(c[1], c[2])
        /\ is_running = TRUE
        /\ gen = [i |-> 0, rooms |-> <<r>>]
        /\ scan_log = {}
        /\ pc = "placed"

\* update_fov with the observer where it was placed.
Recompute ==
    /\ pc = "placed"
    /\ \E cast \in {CastAll(floors[current_floor_index].tiles, player.x, player.y)} :
           /\ floors' = UpdateFov(floors, current_floor_index, player, cast)
           /\ scan_log' = cast.log
    /\ pc' = "seen"
    /\ UNCHANGED <<floor_count, current_floor_index, player, is_running, gen>>

NextOcc == Recompute

SpecOcc == InitOcc /\ [][NextOcc]_vars

\* --- Claims on the occlusion scenario ----------------------------------------
VisibleCells(f) == {c \in Xs \X Ys : floors[f].tiles[c[2]][c[1]].is_visible}

OccRoom == gen.rooms[1]

\* The doorway of the scenario: the one bordering cell that is not a Wall.
OccDoor == CHOOSE c \in Ring(OccRoom) : floors[0].tiles[c[2]][c[1]].type # "WALL"

Abs(a) == IF a < 0 THEN 0 - a ELSE a

\* The cells just behind the doorway: next to it (diagonals included), and not
\* bordering the room.
BehindDoor ==
    {c \in (Xs \X Ys) \ (RoomCells(OccRoom) \cup Ring(OccRoom)) :
        Abs(c[1] - OccDoor[1]) <= 1 /\ Abs(c[2] - OccDoor[2]) <= 1}

\* C7 as stated: after update_fov with the observer inside the room, every cell
\* outside the room is not visible and every cell of the room is visible.
C7_OcclusionAsStated ==
    pc = "seen" =>
        /\ VisibleCells(0) \cap ((Xs \X Ys) \ RoomCells(OccRoom)) = {}
        /\ RoomCells(OccRoom) \subseteq VisibleCells(0)

\* C7 amended: after update_fov with the observer inside the room, every cell
\* of the room is visible, and a visible cell outside the room either borders
\* the room (the enclosing Walls and the doorway, which the pass lights) or is
\* one of the cells just behind the doorway.
C7_Occlusion ==
    pc = "seen" =>
        /\ RoomCells(OccRoom) \subseteq VisibleCells(0)
        /\ VisibleCells(0) \subseteq
              RoomCells(OccRoom) \cup Ring(OccRoom) \cup BehindDoor

\* Witness of C7: a pass has run that lit a Wall next to the room and a cell
\* behind the doorway, and left further cells dark.
C7_Witness ==
    /\ pc = "seen"
    /\ VisibleCells(0) \cap BehindDoor # {}
    /\ \E c \in Ring(OccRoom) \cap VisibleCells(0) : floors[0].tiles[c[2]][c[1]].type = "WALL"
    /\ (Xs \X Ys) \ VisibleCells(0) # {}

\* --- Claims on generate_floor (SpecGen) ----------------------------------------
TypeAt(f, x, y) == floors[f].tiles[y][x].type

GroundCells(f) == {c \in Xs \X Ys : TypeAt(f, c[1], c[2]) = "GROUND"}

Neighbours(c) ==
    {<<c[1] + 1, c[2]>>, <<c[1] - 1, c[2]>>, <<c[1], c[2] + 1>>, <<c[1], c[2] - 1>>}

\* The flood fill over the cells of S from the cells of seen.
RECURSIVE Fill(_, _)
Fill(S, seen) ==
    LET more == {c \in S \ seen : Neighbours(c) \cap seen # {}}
    IN  IF more = {} THEN seen ELSE Fill(S, seen \cup more)

AcceptedRooms == {gen.rooms[j] : j \in 1 .. Len(gen.rooms)}

\* C5: on every floor generate_floor produces, and after every attempt on the
\* way, each accepted room has Ground cells, and a flood fill over Ground cells
\* from a Ground cell of the first accepted room reaches every Ground cell of
\* every accepted room.
C5_Connectivity ==
    Len(gen.rooms) > 0 /\ pc \in {"placing", "generated"} =>
        LET G     == GroundCells(0)
            start == CHOOSE c \in RoomCells(gen.rooms[1]) \cap G : TRUE
            reach == Fill(G, {start})
        IN  \A r \in AcceptedRooms :
                /\ RoomCells(r) \cap G # {}
                /\ RoomCells(r) \cap G \subseteq reach

\* Witness of C5: a finished floor with three rooms, each apart from the room
\* accepted before it (no shared edge or cell) and off its centre's row and
\* column, so that only an L-shaped corridor joins the two.
C5_Witness ==
    /\ pc = "generated"
    /\ Len(gen.rooms) = 3
    /\ \A j \in 1 .. 2 :
          LET a == gen.rooms[j]
              b == gen.rooms[j + 1]
          IN  /\ \A c \in RoomCells(a) : Neighbours(c) \cap RoomCells(b) = {}
              /\ j = 2 => Center(a).x # Center(b).x /\ Center(a).y # Center(b).y

OverlapX(a, b) == a.x < b.x + b.w /\ b.x < a.x + a.w
OverlapY(a, b) == a.y < b.y + b.h /\ b.y < a.y + a.h
TouchX(a, b) == a.x + a.w = b.x \/ b.x + b.w = a.x
TouchY(a, b) == a.y + a.h = b.y \/ b.y + b.h = a.y

\* C6 as stated: no two accepted rooms intersect, where rooms that only touch
\* along an edge count as intersecting.
C6_NoOverlapNorTouchAsStated ==
    \A i \in 1 .. Len(gen.rooms) : \A j \in 1 .. Len(gen.rooms) :
        i # j =>
            LET a == gen.rooms[i]
                b == gen.rooms[j]
            IN  ~ \/ (OverlapX(a, b) /\ OverlapY(a, b))
                  \/ (TouchX(a, b) /\ OverlapY(a, b))
                  \/ (TouchY(a, b) /\ OverlapX(a, b))

\* C6 amended: no two accepted rooms share a cell (rooms that only touch along
\* an edge do not intersect for SDL_HasIntersection, and both are accepted).
C6_NoOverlap ==
    \A i \in 1 .. Len(gen.rooms) : \A j \in 1 .. Len(gen.rooms) :
        i # j => RoomCells(gen.rooms[i]) \cap RoomCells(gen.rooms[j]) = {}

\* Witness of C6: two accepted rooms that touch along an edge.
C6_Witness ==
    \E i \in 1 .. Len(gen.rooms) : \E j \in 1 .. Len(gen.rooms) :
        /\ i # j
        /\ TouchX(gen.rooms[i], gen.rooms[j])
        /\ OverlapY(gen.rooms[i], gen.rooms[j])

\* --- Claims on the game (Spec) ---------------------------------------------------
Cells == Xs \X Ys

\* C1: the observer is inside the grid, on a floor of the dungeon, and on a
\* tile that is not a Wall.
C1_ObserverOnOpenTile ==
    pc = "play" =>
        /\ 0 <= player.x /\ player.x < GRID_COLS
        /\ 0 <= player.y /\ player.y < GRID_ROWS
        /\ current_floor_index \in 0 .. floor_count - 1
        /\ TypeAt(current_floor_index, player.x, player.y) # "WALL"

\* Witness of C1: the observer has gone down two floors and walked off the
\* stair it arrived on.
C1_Witness ==
    /\ pc = "play"
    /\ current_floor_index = 2
    /\ player # floors[2].stairs_up
    /\ TypeAt(2, player.x, player.y) = "GROUND"

\* C2 as stated: on every floor after start-up, the stairs_up tile is StairsUp
\* or Ground and the stairs_down tile is StairsDown or Ground.
C2_StairTiles ==
    pc = "play" =>
        \A f \in DOMAIN floors :
            /\ TypeAt(f, floors[f].stairs_up.x, floors[f].stairs_up.y)
                  \in {"STAIRS_UP", "GROUND"}
            /\ TypeAt(f, floors[f].stairs_down.x, floors[f].stairs_down.y)
                  \in {"STAIRS_DOWN", "GROUND"}

Adjacent(p, q) == Abs(p.x - q.x) + Abs(p.y - q.y) = 1

\* C3: a step that takes the observer down from floor i is a move onto floor
\* i's stairs_down and puts it on floor i+1's stairs_up; a step that takes it up
\* from floor i+1 is a move onto that floor's stairs_up and puts it on floor i's
\* stairs_down.  So Down from floor i's stairs_down, then Up, ends on floor i at
\* floor i's stairs_down.
C3_RoundTrip ==
    [][ /\ current_floor_index' # current_floor_index =>
              \/ current_floor_index' = current_floor_index + 1
              \/ current_floor_index' = current_floor_index - 1
        /\ current_floor_index' = current_floor_index + 1 =>
              /\ Adjacent(player, floors[current_floor_index].stairs_down)
              /\ player' = floors[current_floor_index + 1].stairs_up
        /\ current_floor_index' = current_floor_index - 1 =>
              /\ Adjacent(player, floors[current_floor_index].stairs_up)
              /\ player' = floors[current_floor_index - 1].stairs_down
      ]_vars

\* Witness of C3: the observer stands on floor 0's StairsDown tile, where only
\* an Up transition from floor 1 can have put it.
C3_Witness ==
    /\ pc = "play"
    /\ current_floor_index = 0
    /\ player = floors[0].stairs_down
    /\ TypeAt(0, player.x, player.y) = "STAIRS_DOWN"

\* A movement key that handle_input must reject: its target is outside the
\* grid, a Wall, a StairsUp tile on floor 0 or a StairsDown tile on the last floor.
Rejected(key) ==
    LET np == NextPos(player, key)
    IN  \/ np.x < 0 \/ np.x >= GRID_COLS \/ np.y < 0 \/ np.y >= GRID_ROWS
        \/ LET t == TypeAt(current_floor_index, np.x, np.y)
           IN  \/ t = "WALL"
               \/ t = "STAIRS_UP" /\ current_floor_index = 0
               \/ t = "STAIRS_DOWN" /\ current_floor_index = floor_count - 1

C8_ExploredMonotone ==
    [][ \A f \in DOMAIN floors : \A c \in Cells :
            floors[f].tiles[c[2]][c[1]].is_explored
                => floors'[f].tiles[c[2]][c[1]].is_explored ]_vars

\* Witness of C8: on the current floor a tile seen earlier is out of sight now
\* and is still explored.
C8_Witness ==
    /\ pc = "play"
    /\ \E c \in Cells :
          /\ floors[current_floor_index].tiles[c[2]][c[1]].is_explored
          /\ ~floors[current_floor_index].tiles[c[2]][c[1]].is_visible

\* C9: on every floor, a visible tile is explored.
C9_VisibleImpliesExplored ==
    \A f \in DOMAIN floors : \A c \in Cells :
        floors[f].tiles[c[2]][c[1]].is_visible => floors[f].tiles[c[2]][c[1]].is_explored

\* Witness of C9: a floor the observer has left keeps visible tiles.
C9_Witness ==
    /\ pc = "play"
    /\ \E f \in DOMAIN floors :
          /\ f # current_floor_index
          /\ \E c \in Cells : floors[f].tiles[c[2]][c[1]].is_visible

\* C10 as stated: at every scanned Wall cell, the sub-scan is spawned exactly
\* when the cell scanned before it in the row was not a Wall.
C10_SpawnOnShadowEntry ==
    \A e \in scan_log : e.spawned <=> ~e.prev_wall

====
